---- MODULE Spec2Model ----
(***************************************************************************)
(* A model of the overlay components of react-native-paper: the Menu       *)
(* (placement arithmetic of render, and the listener / measurement /       *)
(* retry life cycle of _show and _hide) and the Modal (back-button         *)
(* listener, show/hide animation and onRequestClose).                      *)
(*                                                                         *)
(* Opacities are written in hundredths: 0 is opacity 0, 100 is opacity 1,  *)
(* OpacityMid is any value strictly in between.                            *)
(***************************************************************************)
EXTENDS Integers, Sequences, FiniteSets, TLC

VARIABLES menu, menuPos, modal, snackbar, control, search, toolbar, card

vars == <<menu, menuPos, modal, snackbar, control, search, toolbar, card>>

\* what the steps of one component leave alone
notMenu == <<modal, snackbar, control, search, toolbar, card>>
notModal == <<menu, menuPos, snackbar, control, search, toolbar, card>>
notSnackbar == <<menu, menuPos, modal, control, search, toolbar, card>>
notControl == <<menu, menuPos, modal, snackbar, search, toolbar, card>>
notSearch == <<menu, menuPos, modal, snackbar, control, toolbar, card>>
notToolbar == <<menu, menuPos, modal, snackbar, control, search, card>>
notCard == <<menu, menuPos, modal, snackbar, control, search, toolbar>>

(***************************************************************************)
(* Bounds of the model.                                                    *)
(***************************************************************************)
\* pending _show continuations (measurement promises that will resolve)
MaxAwaiting == 2
\* pending setTimeout(this._show, ANIMATION_DURATION) timers
MaxTimers == 2
\* animations of the Modal's opacity value running at the same time
MaxAnims == 3
\* user dismissals of the Modal not yet answered by onRequestClose
MaxPresses == 2
\* pending hide timers of the Snackbar that this._hideTimeout no longer names
MaxStale == 2
\* the statusBarHeight prop of the Menu (any number; one non-zero value)
StatusBarHeight == 3

OpacityMid == 50

\* children given to a Toolbar or a Card
MaxChildren == 4

(***************************************************************************)
(* Menu: constants and input sets                                          *)
(***************************************************************************)
SCREEN_INDENT == 8

\* window sizes handed out by Dimensions.get('window'): square, portrait
\* and landscape windows
WindowSizes == {28, 34}
\* x or y of a measured anchor (measureInWindow may report an off-screen one)
AnchorPositions == {-1, 0, 3, 8, 9, 10, 13, 20, 27}
AnchorSizes == {1, 4}
MenuSizes == {2, 12, 13, 18}

Platforms == {"android", "ios"}

Layout(w, h) == [width |-> w, height |-> h]
Rect(x, y, w, h) == [x |-> x, y |-> y, width |-> w, height |-> h]

WindowLayouts == {Layout(w, h) : w \in WindowSizes, h \in WindowSizes}
MenuRects == {Rect(0, 0, w, h) : w \in MenuSizes, h \in MenuSizes}
AnchorRects ==
  [x : AnchorPositions, y : AnchorPositions, width : AnchorSizes, height : AnchorSizes]

\* what measureInWindow reports for a view that is not laid out yet
ZeroRect == Rect(0, 0, 0, 0)

\* the measurements of the life-cycle specification: laid out or not
SmallMenuRects == {ZeroRect, Rect(0, 0, 12, 12)}
SmallAnchorRects == {ZeroRect, Rect(9, 13, 1, 4)}
SmallWindowLayouts == {Layout(0, 0), Layout(28, 34)}

(***************************************************************************)
(* Menu: state after construction                                          *)
(***************************************************************************)
MenuState(v, os) ==
  [ mounted |-> TRUE,
    visible |-> v,
    platform |-> os,
    menuRef |-> FALSE,
    back |-> FALSE,
    dims |-> FALSE,
    awaiting |-> 0,
    timers |-> 0,
    top |-> 0,
    left |-> 0,
    windowLayout |-> Layout(0, 0),
    menuLayout |-> Layout(0, 0),
    anchorLayout |-> Layout(0, 0),
    opacity |-> 0,
    scale |-> "zero",
    anim |-> "none" ]

MenuIdle == MenuState(FALSE, "ios")

(***************************************************************************)
(* Menu.render: the placement arithmetic                                   *)
(***************************************************************************)
additionalVerticalValue(m) ==
  IF m.platform = "android" THEN StatusBarHeight ELSE 0

\* TRUE when the menu is left-aligned to the anchor (translateX grows from
\* the left), FALSE when it is aligned to the anchor's right edge
fitsHorizontally(m) ==
  m.left <= m.windowLayout.width - m.menuLayout.width - SCREEN_INDENT

\* renderLeft without the clamp to SCREEN_INDENT on the left side
renderLeftNoClamp(m) ==
  IF fitsHorizontally(m)
    THEN m.left
    ELSE LET l == m.left + m.anchorLayout.width - m.menuLayout.width
             right == l + m.menuLayout.width
         IN IF right <= m.windowLayout.width
               /\ right > m.windowLayout.width - SCREEN_INDENT
              THEN m.windowLayout.width - SCREEN_INDENT - m.menuLayout.width
              ELSE l

renderLeft(m) ==
  IF fitsHorizontally(m)
    THEN IF m.left >= 0 /\ m.left < SCREEN_INDENT THEN SCREEN_INDENT ELSE m.left
    ELSE LET l == m.left + m.anchorLayout.width - m.menuLayout.width
             right == l + m.menuLayout.width
         IN IF right <= m.windowLayout.width
               /\ right > m.windowLayout.width - SCREEN_INDENT
              THEN m.windowLayout.width - SCREEN_INDENT - m.menuLayout.width
              ELSE l

\* the vertical test of the code compares against windowLayout.width
fitsVertically(m) ==
  m.top <= m.windowLayout.width - m.menuLayout.height - SCREEN_INDENT

renderTop(m) ==
  IF fitsVertically(m)
    THEN IF m.top >= 0 /\ m.top < SCREEN_INDENT THEN SCREEN_INDENT ELSE m.top
    ELSE LET t == m.top + m.anchorLayout.height - m.menuLayout.height
             bottom == t + m.menuLayout.height + additionalVerticalValue(m)
         IN IF bottom <= m.windowLayout.height
               /\ bottom > m.windowLayout.height - SCREEN_INDENT
              THEN m.windowLayout.height - SCREEN_INDENT - m.menuLayout.height
                   - additionalVerticalValue(m)
              ELSE t

\* positionStyle and the origin of the scale transform on each axis
positionStyle(m) ==
  [ left |-> renderLeft(m),
    top |-> renderTop(m) + additionalVerticalValue(m),
    originX |-> IF fitsHorizontally(m) THEN "left" ELSE "right",
    originY |-> IF fitsVertically(m) THEN "top" ELSE "bottom" ]

(***************************************************************************)
(* Menu: _show, _hide and the life cycle                                   *)
(*                                                                         *)
(* BackHandler and Dimensions keep one registration per handler function   *)
(* and removeEventListener removes it, so a registration is a boolean.     *)
(* The opacity value has at most one running animation: "show" is the      *)
(* Animated.parallel of _show (scale and opacity), "hide" the timing of    *)
(* _hide; starting one stops the other.                                    *)
(***************************************************************************)
anyZero(w, ml, al) ==
  \/ w.width = 0 \/ w.height = 0
  \/ ml.width = 0 \/ ml.height = 0
  \/ al.width = 0 \/ al.height = 0

\* _show up to its await: the listeners are added and both views are
\* measured; the promises resolve only if both refs are set (the anchor ref
\* is cleared on unmount)
show(m) ==
  [m EXCEPT !.back = TRUE,
            !.dims = TRUE,
            !.awaiting = IF m.menuRef /\ m.mounted THEN @ + 1 ELSE @]

\* _show after its await, with the window read by Dimensions.get and the
\* two measured rectangles
showMeasured(m, w, ml, al) ==
  IF anyZero(w, ml, al)
    THEN [m EXCEPT !.awaiting = @ - 1, !.back = FALSE, !.timers = @ + 1]
    ELSE IF m.mounted
      THEN [m EXCEPT !.awaiting = @ - 1,
                     !.left = al.x,
                     !.top = al.y,
                     !.windowLayout = Layout(w.width, w.height),
                     !.anchorLayout = Layout(al.width, al.height),
                     !.menuLayout = Layout(ml.width, ml.height),
                     !.anim = "show"]
      ELSE [m EXCEPT !.awaiting = @ - 1]

hide(m) ==
  [m EXCEPT !.back = FALSE, !.dims = FALSE, !.anim = "hide"]

updateVisibility(m) == IF m.visible THEN show(m) ELSE hide(m)

\* the parent changes the visible prop; the Menu renders and
\* componentDidUpdate runs
MenuSetVisible ==
  /\ menu.mounted
  /\ menu.visible \/ ~menu.menuRef \/ menu.awaiting < MaxAwaiting
  /\ menu' = updateVisibility([menu EXCEPT !.visible = ~menu.visible])
  /\ menuPos' = positionStyle(menu')
  /\ UNCHANGED notMenu

\* the Portal renders the menu view and its ref callback runs
MenuRefAttached ==
  /\ menu.mounted
  /\ ~menu.menuRef
  /\ menu' = LET m == [menu EXCEPT !.menuRef = TRUE]
             IN IF m.visible THEN show(m) ELSE m
  /\ UNCHANGED <<menuPos, notMenu>>

MenuMeasuredWith(ws, mls, als) ==
  /\ menu.awaiting > 0
  /\ \E w \in ws, ml \in mls, al \in als :
       /\ anyZero(w, ml, al) => menu.timers < MaxTimers
       /\ menu' = showMeasured(menu, w, ml, al)
  /\ menuPos' = IF menu'.mounted THEN positionStyle(menu') ELSE menuPos
  /\ UNCHANGED notMenu

\* the measurement promises of a pending _show resolve; its setState
\* renders the Menu again
MenuMeasured == MenuMeasuredWith(SmallWindowLayouts, SmallMenuRects, SmallAnchorRects)

MenuMeasuredLayout == MenuMeasuredWith(WindowLayouts, MenuRects, AnchorRects)

\* setTimeout(this._show, ANIMATION_DURATION) fires
MenuRetryTimer ==
  /\ menu.timers > 0
  /\ ~(menu.menuRef /\ menu.mounted) \/ menu.awaiting < MaxAwaiting
  /\ menu' = show([menu EXCEPT !.timers = @ - 1])
  /\ UNCHANGED <<menuPos, notMenu>>

MenuUnmount ==
  /\ menu.mounted
  /\ menu' = [menu EXCEPT !.mounted = FALSE, !.back = FALSE, !.dims = FALSE]
  /\ UNCHANGED <<menuPos, notMenu>>

\* a frame of the running animation
MenuAnimFrame ==
  /\ menu.anim # "none"
  /\ menu' = [menu EXCEPT
       !.opacity = IF @ = (IF menu.anim = "show" THEN 100 ELSE 0)
                     THEN @ ELSE OpacityMid,
       !.scale = IF menu.anim = "show" /\ @ # "full" THEN "mid" ELSE @]
  /\ menu' # menu
  /\ UNCHANGED <<menuPos, notMenu>>

\* the running animation finishes; _hide's callback resets the scale
MenuAnimEnd ==
  /\ menu.anim # "none"
  /\ menu' = IF menu.anim = "show"
               THEN [menu EXCEPT !.anim = "none", !.opacity = 100, !.scale = "full"]
               ELSE [menu EXCEPT !.anim = "none", !.opacity = 0, !.scale = "zero"]
  /\ UNCHANGED <<menuPos, notMenu>>

(***************************************************************************)
(* Modal                                                                   *)
(*                                                                         *)
(* anims are the running Animated.timing animations of state.opacity in    *)
(* the order they were started; all last 280 ms, so they finish in that    *)
(* order.  tracked is the index of the one the Animated.Value holds as its *)
(* current animation (0: none).  Starting an animation stops the tracked   *)
(* one, which runs its callback, and then tracks the new one; an animation *)
(* that finishes or is stopped clears the tracking.                        *)
(*                                                                         *)
(* unanswered, called and spurious observe onRequestClose: the user        *)
(* dismissals not yet answered by a call, whether a call was made, and     *)
(* whether a call was made with no dismissal to answer.  handled is what   *)
(* the last _handleBack returned.                                          *)
(***************************************************************************)
ModalState(v, d) ==
  [ mounted |-> TRUE,
    visible |-> v,
    dismissable |-> d,
    opacity |-> IF v THEN 100 ELSE 0,
    rendered |-> v,
    back |-> FALSE,
    anims |-> <<>>,
    tracked |-> 0,
    unanswered |-> 0,
    called |-> FALSE,
    spurious |-> FALSE,
    handled |-> "none" ]

ModalIdle == ModalState(FALSE, TRUE)

RemoveAt(seq, i) == [k \in 1..(Len(seq) - 1) |-> IF k < i THEN seq[k] ELSE seq[k + 1]]

\* this.setState of a Modal: dropped once it is unmounted
setRendered(m, r) == IF m.mounted THEN [m EXCEPT !.rendered = r] ELSE m

\* this.props.onRequestClose()
onRequestClose(m) ==
  IF m.unanswered > 0
    THEN [m EXCEPT !.unanswered = @ - 1, !.called = TRUE]
    ELSE [m EXCEPT !.called = TRUE, !.spurious = TRUE]

RECURSIVE animate(_, _, _, _), hideCallback(_, _), showModal(_, _),
          hideModal(_, _), setVisible(_, _, _)

\* Animated.timing(this.state.opacity, {toValue: to}).start(cb); answer
\* tells whether the parent answers an onRequestClose made on the way by
\* setting visible to false before the call returns
animate(m, to, cb, answer) ==
  LET stopped ==
        IF m.tracked = 0
          THEN m
          ELSE LET old == m.anims[m.tracked]
                   m0 == [m EXCEPT !.anims = RemoveAt(@, m.tracked), !.tracked = 0]
               IN IF old.cb THEN hideCallback(m0, answer) ELSE m0
  IN [stopped EXCEPT !.anims = Append(@, [to |-> to, cb |-> cb]),
                     !.tracked = Len(stopped.anims) + 1]

\* the callback of _hideModal without the call of _showModal
hideCallbackNoShow(m, answer) ==
  LET asked == IF m.visible
                 THEN IF answer /\ m.mounted
                        THEN setVisible(onRequestClose(m), FALSE, FALSE)
                        ELSE onRequestClose(m)
                 ELSE m
  IN IF asked.visible THEN asked ELSE setRendered(asked, FALSE)

\* the callback _hideModal passes to start
hideCallback(m, answer) ==
  LET asked == IF m.visible
                 THEN IF answer /\ m.mounted
                        THEN setVisible(onRequestClose(m), FALSE, FALSE)
                        ELSE onRequestClose(m)
                 ELSE m
  IN IF asked.visible THEN showModal(asked, answer) ELSE setRendered(asked, FALSE)

showModal(m, answer) ==
  animate([m EXCEPT !.back = TRUE], 100, FALSE, answer)

hideModal(m, answer) ==
  animate([m EXCEPT !.back = FALSE], 0, TRUE, answer)

\* a change of the visible prop: componentWillReceiveProps, then
\* componentDidUpdate
setVisible(m, v, answer) ==
  LET received == IF m.visible # v /\ v THEN [m EXCEPT !.rendered = TRUE] ELSE m
      updated == [received EXCEPT !.visible = v]
  IN IF m.visible # v
       THEN IF v THEN showModal(updated, answer) ELSE hideModal(updated, answer)
       ELSE updated

\* _handleBack that hides whatever dismissable says
handleBackAlways(m, answer) ==
  [hideModal(m, answer) EXCEPT !.handled = "true"]

handleBack(m, answer) ==
  [(IF m.dismissable THEN hideModal(m, answer) ELSE m) EXCEPT !.handled = "true"]

\* the touchable over the backdrop that render returns
backdropRendered(m) == m.mounted /\ m.rendered /\ m.dismissable

userDismissal(m) ==
  IF m.dismissable THEN [m EXCEPT !.unanswered = @ + 1] ELSE m

\* the parent changes the visible prop
ModalSetVisible ==
  /\ modal.mounted
  /\ modal' = setVisible(modal, ~modal.visible, FALSE)
  /\ Len(modal'.anims) <= MaxAnims
  /\ UNCHANGED notModal

\* the parent changes the dismissable prop
ModalSetDismissable ==
  /\ modal.mounted
  /\ modal' = [modal EXCEPT !.dismissable = ~@]
  /\ UNCHANGED notModal

\* the user presses the backdrop (inside a batched event handler: the
\* parent's answer arrives after the handler)
ModalBackdropPress ==
  /\ backdropRendered(modal)
  /\ modal.unanswered < MaxPresses
  /\ modal' = hideModal(userDismissal(modal), FALSE)
  /\ Len(modal'.anims) <= MaxAnims
  /\ UNCHANGED notModal

\* the hardware back button is pressed while the handler is registered
ModalBackPress ==
  /\ modal.back
  /\ modal.unanswered < MaxPresses
  /\ \E answer \in BOOLEAN : modal' = handleBack(userDismissal(modal), answer)
  /\ Len(modal'.anims) <= MaxAnims
  /\ UNCHANGED notModal

\* a frame of a running animation that moves the value
ModalAnimFrame ==
  /\ modal.opacity # OpacityMid
  /\ \E i \in 1..Len(modal.anims) : modal.anims[i].to # modal.opacity
  /\ modal' = [modal EXCEPT !.opacity = OpacityMid]
  /\ UNCHANGED notModal

\* the oldest running animation reaches its end
ModalAnimEnd ==
  /\ Len(modal.anims) > 0
  /\ LET a == Head(modal.anims)
         m0 == [modal EXCEPT !.anims = Tail(@), !.tracked = 0, !.opacity = a.to]
     IN \E answer \in BOOLEAN :
          modal' = IF a.cb THEN hideCallback(m0, answer) ELSE m0
  /\ Len(modal'.anims) <= MaxAnims
  /\ UNCHANGED notModal

\* the Modal has no componentWillUnmount
ModalUnmount ==
  /\ modal.mounted
  /\ modal' = [modal EXCEPT !.mounted = FALSE]
  /\ UNCHANGED notModal

(***************************************************************************)
(* Snackbar                                                                *)
(*                                                                         *)
(* opacity and translateY are animated together by one Animated.parallel:  *)
(* anim is the running one ("show" or "hide"), toY its translateY target.  *)
(* Stopping either value (a new animation, translateY.setValue, or the     *)
(* detaching of the values on unmount) stops both and runs the callback    *)
(* given to start, as finishing does.                                      *)
(* timer tells whether the timeout that this._hideTimeout names is         *)
(* pending, stale counts the pending timeouts it no longer names.          *)
(* log holds the callback props called by the last step and shown tells    *)
(* whether the show animation has run to its end since the last _show.     *)
(***************************************************************************)
DURATION_SHORT == "DURATION_SHORT"
DURATION_INDEFINITE == "DURATION_INDEFINITE"
Durations == {DURATION_SHORT, DURATION_INDEFINITE}

\* heights reported by the onLayout event
Heights == {2, 4}

SnackbarState(v, d, a) ==
  [ life |-> "constructed",
    visible |-> v,
    duration |-> d,
    action |-> a,
    rendered |-> FALSE,
    height |-> 0,
    opacity |-> 0,
    translateY |-> 0,
    anim |-> "none",
    toY |-> 0,
    timer |-> FALSE,
    stale |-> 0,
    shown |-> FALSE,
    log |-> <<>> ]

SnackbarIdle == SnackbarState(FALSE, DURATION_SHORT, FALSE)

\* the callback of _show that sets the timer whatever the duration
showCallbackAlways(s) ==
  [s EXCEPT !.stale = IF s.timer THEN @ + 1 ELSE @, !.timer = TRUE]

\* the callback _show passes to start
showCallback(s) ==
  IF s.duration # DURATION_INDEFINITE
    THEN [s EXCEPT !.stale = IF s.timer THEN @ + 1 ELSE @, !.timer = TRUE]
    ELSE s

\* the running animation is stopped: the values stay where they are
stopAnimation(s) ==
  IF s.anim = "show"
    THEN showCallback([s EXCEPT !.anim = "none"])
    ELSE [s EXCEPT !.anim = "none"]

snackbarShow(s) ==
  [stopAnimation(s) EXCEPT !.anim = "show", !.toY = 0, !.shown = FALSE]

snackbarHide(s) ==
  [stopAnimation([s EXCEPT !.timer = FALSE])
     EXCEPT !.anim = "hide", !.toY = s.height, !.shown = FALSE]

handleLayout(s, h) ==
  [stopAnimation([s EXCEPT !.height = h, !.rendered = TRUE])
     EXCEPT !.translateY = h]

\* onPress of the action button that also starts the hide animation
actionPressHides(s) ==
  [snackbarHide(s) EXCEPT !.log = <<"action.onPress", "onDismiss">>]

\* onPress of the action button
actionPress(s) ==
  [s EXCEPT !.log = <<"action.onPress", "onDismiss">>]

Midway(from, to) == IF from = to THEN to ELSE (from + to) \div 2

SnackbarDidMount ==
  /\ snackbar.life = "constructed"
  /\ snackbar' = [(IF snackbar.visible THEN snackbarShow(snackbar) ELSE snackbar)
                    EXCEPT !.life = "mounted", !.log = <<>>]
  /\ UNCHANGED notSnackbar

\* the parent changes the visible prop; componentDidUpdate runs
SnackbarSetVisible ==
  /\ snackbar.life = "mounted"
  /\ snackbar' = LET s == [snackbar EXCEPT !.visible = ~@, !.log = <<>>]
                 IN IF s.visible THEN snackbarShow(s) ELSE snackbarHide(s)
  /\ snackbar'.stale <= MaxStale
  /\ UNCHANGED notSnackbar

\* the wrapper is laid out for the first time or with a new height
SnackbarLayout ==
  /\ snackbar.life = "mounted"
  /\ \E h \in Heights \ {snackbar.height} :
       snackbar' = handleLayout([snackbar EXCEPT !.log = <<>>], h)
  /\ snackbar'.stale <= MaxStale
  /\ UNCHANGED notSnackbar

\* a frame of the running animation that moves a value
SnackbarAnimFrame ==
  /\ snackbar.anim # "none"
  /\ LET to == IF snackbar.anim = "show" THEN 100 ELSE 0
     IN snackbar' = [snackbar EXCEPT
          !.opacity = IF @ = to THEN @ ELSE OpacityMid,
          !.translateY = Midway(@, snackbar.toY),
          !.log = <<>>]
  /\ snackbar'.opacity # snackbar.opacity \/ snackbar'.translateY # snackbar.translateY
  /\ UNCHANGED notSnackbar

\* the running animation reaches its end
SnackbarAnimEnd ==
  /\ snackbar.anim # "none"
  /\ LET ended == [snackbar EXCEPT
                     !.opacity = IF snackbar.anim = "show" THEN 100 ELSE 0,
                     !.translateY = snackbar.toY,
                     !.anim = "none",
                     !.shown = (snackbar.anim = "show"),
                     !.log = <<>>]
     IN snackbar' = IF snackbar.anim = "show" THEN showCallback(ended) ELSE ended
  /\ snackbar'.stale <= MaxStale
  /\ UNCHANGED notSnackbar

\* a pending setTimeout(this.props.onDismiss, duration) fires
SnackbarTimer ==
  /\ \/ /\ snackbar.timer
        /\ snackbar' = [snackbar EXCEPT !.timer = FALSE, !.log = <<"onDismiss">>]
     \/ /\ snackbar.stale > 0
        /\ snackbar' = [snackbar EXCEPT !.stale = @ - 1, !.log = <<"onDismiss">>]
  /\ UNCHANGED notSnackbar

\* the user presses the action button
SnackbarActionPress ==
  /\ snackbar.life = "mounted"
  /\ snackbar.action
  /\ snackbar' = actionPress(snackbar)
  /\ UNCHANGED notSnackbar

\* componentWillUnmount; the animated views then detach the values, which
\* may stop the running animation
SnackbarUnmount ==
  /\ snackbar.life = "mounted"
  /\ \E detach \in BOOLEAN :
       LET s == [snackbar EXCEPT !.timer = FALSE, !.life = "unmounted", !.log = <<>>]
       IN snackbar' = IF detach THEN stopAnimation(s) ELSE s
  /\ UNCHANGED notSnackbar

(***************************************************************************)
(* Props and JSX                                                           *)
(*                                                                         *)
(* A props object is a function from prop names to JavaScript values,      *)
(* written as strings: "undefined", "null", "false", "true", "" and other  *)
(* tokens for functions, colours and texts.  A missing prop reads as       *)
(* "undefined".                                                            *)
(***************************************************************************)
Get(props, k) == IF k \in DOMAIN props THEN props[k] ELSE "undefined"

Truthy(v) == v \notin {"undefined", "null", "false", ""}

\* a || b
Or(a, b) == IF Truthy(a) THEN a ELSE b

\* !a
Not(a) == IF Truthy(a) THEN "false" ELSE "true"

\* const { names, ...rest } = props
Rest(props, names) == [k \in DOMAIN props \ names |-> props[k]]

\* {...a, ...b}: the props written later win
Spread(a, b) ==
  [k \in DOMAIN a \cup DOMAIN b |-> IF k \in DOMAIN b THEN b[k] ELSE a[k]]

(***************************************************************************)
(* TouchableRipple, Checkbox, RadioButton and Switch                       *)
(***************************************************************************)
ANDROID_VERSION_LOLLIPOP == 21

\* Platform.OS and Platform.Version
ControlPlatforms ==
  { [os |-> "android", version |-> 19],
    [os |-> "android", version |-> 21],
    [os |-> "ios", version |-> 11] }

\* TouchableRipple.render with disabled taken from the disabled prop alone
touchableRippleDisabledProp(props, platform) ==
  LET rest == Rest(props, {"style", "background", "borderless", "disabled",
                           "rippleColor", "underlayColor", "children"})
      disabled == Get(props, "disabled")
  IN IF platform.os = "android" /\ platform.version >= ANDROID_VERSION_LOLLIPOP
       THEN [ type |-> "TouchableNativeFeedback",
              props |-> Spread(rest,
                [ disabled |-> disabled,
                  background |-> IF Get(props, "background") \notin {"undefined", "null"}
                                   THEN Get(props, "background") ELSE "Ripple" ]) ]
       ELSE [ type |-> "TouchableHighlight",
              props |-> Spread(rest,
                [ disabled |-> disabled,
                  style |-> Get(props, "style"),
                  underlayColor |-> IF Get(props, "underlayColor") \notin {"undefined", "null"}
                                      THEN Get(props, "underlayColor") ELSE "faded" ]) ]

\* TouchableRipple.render: the touchable element it returns
touchableRipple(props, platform) ==
  LET rest == Rest(props, {"style", "background", "borderless", "disabled",
                           "rippleColor", "underlayColor", "children"})
      disabled == Or(Get(props, "disabled"), Not(Get(props, "onPress")))
  IN IF platform.os = "android" /\ platform.version >= ANDROID_VERSION_LOLLIPOP
       THEN [ type |-> "TouchableNativeFeedback",
              props |-> Spread(rest,
                [ disabled |-> disabled,
                  background |-> IF Get(props, "background") \notin {"undefined", "null"}
                                   THEN Get(props, "background") ELSE "Ripple" ]) ]
       ELSE [ type |-> "TouchableHighlight",
              props |-> Spread(rest,
                [ disabled |-> disabled,
                  style |-> Get(props, "style"),
                  underlayColor |-> IF Get(props, "underlayColor") \notin {"undefined", "null"}
                                      THEN Get(props, "underlayColor") ELSE "faded" ]) ]

\* Checkbox.render that passes onPress whatever disabled is
checkboxPassesOnPress(props) ==
  Spread(Rest(props, {"checked", "disabled", "onPress", "theme"}),
    [ borderless |-> "true",
      rippleColor |-> IF Truthy(Get(props, "disabled")) THEN "rgba(0, 0, 0, .16)"
                                                        ELSE "clearer",
      onPress |-> Get(props, "onPress"),
      style |-> "container" ])

\* Checkbox.render: the props it gives to TouchableRipple
checkbox(props) ==
  Spread(Rest(props, {"checked", "disabled", "onPress", "theme"}),
    [ borderless |-> "true",
      rippleColor |-> IF Truthy(Get(props, "disabled")) THEN "rgba(0, 0, 0, .16)"
                                                        ELSE "clearer",
      onPress |-> IF Truthy(Get(props, "disabled")) THEN "undefined"
                                                    ELSE Get(props, "onPress"),
      style |-> "container" ])

\* RadioButton.render: the props it gives to TouchableRipple
radioButton(props) ==
  Spread(Rest(props, {"checked", "disabled", "onPress", "theme"}),
    [ borderless |-> "true",
      rippleColor |-> IF Truthy(Get(props, "disabled")) THEN "rgba(0, 0, 0, .16)"
                                                        ELSE "faded",
      onPress |-> IF Truthy(Get(props, "disabled")) THEN "undefined"
                                                    ELSE Get(props, "onPress"),
      style |-> "container" ])

\* SwitchRow.render: the props it gives to the native Switch
switchRow(props, platform) ==
  LET disabled == Get(props, "disabled")
      checkedColor == Or(Get(props, "color"), "accent")
  IN Spread(Rest(props, {"value", "disabled", "onValueChange", "color", "theme"}),
       [ value |-> Get(props, "value"),
         disabled |-> disabled,
         onTintColor |-> IF platform.os = "ios" THEN checkedColor
                         ELSE IF Truthy(disabled) THEN "grey400 .38"
                         ELSE "checked .38",
         thumbTintColor |-> IF platform.os = "ios" THEN "undefined"
                            ELSE IF Truthy(disabled) THEN "grey400"
                            ELSE IF Truthy(Get(props, "value")) THEN checkedColor
                            ELSE "grey50",
         onValueChange |-> IF Truthy(disabled) THEN "undefined"
                                               ELSE Get(props, "onValueChange") ])

ControlKinds == {"TouchableRipple", "Checkbox", "RadioButton", "Switch"}

\* the props a caller gives to a control of each kind
ControlProps(kind) ==
  IF kind = "TouchableRipple"
    THEN [ disabled : {"undefined", "false", "true"},
           onPress : {"undefined", "null", "callerOnPress"},
           background : {"undefined", "callerBackground"},
           accessibilityLabel : {"undefined", "label"} ]
  ELSE IF kind = "Switch"
    THEN [ disabled : {"undefined", "false", "true"},
           onValueChange : {"undefined", "callerOnValueChange"},
           value : {"false", "true"},
           color : {"undefined", "red"} ]
  ELSE [ disabled : {"undefined", "false", "true"},
         onPress : {"undefined", "callerOnPress"},
         checked : {"false", "true"},
         color : {"undefined", "red"} ]

\* the props handed to the inner TouchableRipple or native Switch
innerProps(kind, props, platform) ==
  IF kind = "Checkbox" THEN checkbox(props)
  ELSE IF kind = "RadioButton" THEN radioButton(props)
  ELSE IF kind = "Switch" THEN switchRow(props, platform)
  ELSE props

\* the touchable (or native switch) that ends up on screen
element(kind, props, platform) ==
  IF kind = "Switch"
    THEN [type |-> "Switch", props |-> innerProps(kind, props, platform)]
    ELSE touchableRipple(innerProps(kind, props, platform), platform)

\* the callback prop a touch of the element fires
callbackName(kind) == IF kind = "Switch" THEN "onValueChange" ELSE "onPress"

\* a touch: a disabled touchable or switch ignores it, an enabled one calls
\* its callback prop if it is a function
touch(el, name) ==
  IF ~Truthy(Get(el.props, "disabled")) /\ Truthy(Get(el.props, name))
    THEN <<Get(el.props, name)>>
    ELSE <<>>

ControlState(kind, props, platform) ==
  [ kind |-> kind,
    props |-> props,
    platform |-> platform,
    inner |-> innerProps(kind, props, platform),
    element |-> element(kind, props, platform),
    touched |-> FALSE,
    log |-> <<>> ]

\* a control of each kind as first rendered: enabled, with its callback
ControlFirstProps(kind) ==
  IF kind = "TouchableRipple"
    THEN [ disabled |-> "undefined", onPress |-> "callerOnPress",
           background |-> "undefined", accessibilityLabel |-> "undefined" ]
  ELSE IF kind = "Switch"
    THEN [ disabled |-> "undefined", onValueChange |-> "callerOnValueChange",
           value |-> "false", color |-> "undefined" ]
  ELSE [ disabled |-> "undefined", onPress |-> "callerOnPress",
         checked |-> "false", color |-> "undefined" ]

ControlIdle ==
  ControlState("TouchableRipple", ControlFirstProps("TouchableRipple"),
    [os |-> "ios", version |-> 11])

\* the parent renders the control with other props
ControlSetProps ==
  /\ \E props \in ControlProps(control.kind) :
       /\ props # control.props
       /\ control' = ControlState(control.kind, props, control.platform)
  /\ UNCHANGED notControl

\* the user touches the control
ControlTouch ==
  /\ control' = [control EXCEPT
       !.touched = TRUE,
       !.log = touch(control.element, callbackName(control.kind))]
  /\ UNCHANGED notControl

(***************************************************************************)
(* SearchBar                                                               *)
(***************************************************************************)
\* texts of the input
SearchValues == {"", "a", "ab", "abc"}

\* SearchBar.render: whether the clear button and the icon button are there
searchBar(props) ==
  [ placeholder |-> Or(Get(props, "placeholder"), ""),
    clear |-> Truthy(Get(props, "value")),
    iconButton |-> Truthy(Get(props, "onIconPress")),
    iconName |-> IF Truthy(Get(props, "onIconPress"))
                   THEN Or(Get(props, "icon"), "search") ELSE "search" ]

\* _handleClearPress that hands the current value to onChangeText
handleClearPressValue(props) ==
  <<[fn |-> "onChangeText", arg |-> Get(props, "value")]>>

\* _handleClearPress: the calls it makes
handleClearPress(props) ==
  <<[fn |-> "onChangeText", arg |-> ""]>>

SearchProps ==
  [ value : SearchValues,
    onIconPress : {"undefined", "callerOnIconPress"},
    icon : {"undefined", "menu"},
    placeholder : {"undefined", "Search"} ]

SearchState(props) ==
  [ props |-> props,
    rendered |-> searchBar(props),
    last |-> "none",
    log |-> <<>> ]

SearchIdle ==
  SearchState([ value |-> "", onIconPress |-> "undefined", icon |-> "undefined",
                placeholder |-> "undefined" ])

\* the parent renders the SearchBar with other props
SearchSetProps ==
  /\ \E props \in SearchProps :
       /\ props # search.props
       /\ search' = SearchState(props)
  /\ UNCHANGED notSearch

\* the user edits the text: the TextInput calls onChangeText (in rest)
SearchType ==
  /\ \E text \in SearchValues \ {search.props.value} :
       search' = [search EXCEPT
         !.last = "type",
         !.log = <<[fn |-> "onChangeText", arg |-> text]>>]
  /\ UNCHANGED notSearch

\* the user presses the clear button
SearchClearPress ==
  /\ search.rendered.clear
  /\ search' = [search EXCEPT !.last = "clear", !.log = handleClearPress(search.props)]
  /\ UNCHANGED notSearch

\* the user presses the icon button
SearchIconPress ==
  /\ search.rendered.iconButton
  /\ search' = [search EXCEPT
       !.last = "icon",
       !.log = <<[fn |-> "onIconPress", arg |-> "undefined"]>>]
  /\ UNCHANGED notSearch

(***************************************************************************)
(* Children                                                                *)
(*                                                                         *)
(* The children of a composite are a sequence of elements, each a record   *)
(* of its type, its key and its props; an empty child (null, undefined,    *)
(* false) has the type "null".  A key is the name its author gave it and   *)
(* the prefix React puts before it.                                        *)
(***************************************************************************)
\* the names of the children a parent writes, by position
ChildNames == <<"a", "b", "c", "d", "e", "f">>

\* Children.toArray: empty children are dropped and the keys are prefixed
toArray(children) ==
  LET kept == SelectSeq(children, LAMBDA c : c.type # "null")
  IN [i \in 1..Len(kept) |-> [kept[i] EXCEPT !.key.prefix = ".$"]]

\* React.cloneElement(child, props)
cloneElement(child, props) == [child EXCEPT !.props = Spread(@, props)]

(***************************************************************************)
(* Toolbar                                                                 *)
(***************************************************************************)
ToolbarPlatforms == {"ios", "android"}

ToolbarContent == "ToolbarContent"

\* the kinds of child a Toolbar is given
ToolbarChildTypes == {ToolbarContent, "ToolbarAction", "null"}

ToolbarChild(type, dark, name) ==
  [ type |-> type,
    key |-> [prefix |-> "", name |-> name],
    props |-> [dark |-> dark] ]

\* <View key="left-empty-icon" style={styles.emptyIcon} />
emptyIcon(name) ==
  [ type |-> "View",
    key |-> [prefix |-> "", name |-> name],
    props |-> [style |-> "emptyIcon"] ]

\* the forEach of render over childrenArray[i..]: <<leftActions, rightActions>>
RECURSIVE countActions(_, _, _, _, _)
countActions(childrenArray, i, isToolbarContentFound, leftActions, rightActions) ==
  IF i > Len(childrenArray) THEN <<leftActions, rightActions>>
  ELSE IF ~isToolbarContentFound /\ childrenArray[i].type # ToolbarContent
    THEN countActions(childrenArray, i + 1, isToolbarContentFound,
                      leftActions + 1, rightActions)
  ELSE IF childrenArray[i].type = ToolbarContent
    THEN countActions(childrenArray, i + 1, TRUE, leftActions, rightActions)
  ELSE countActions(childrenArray, i + 1, isToolbarContentFound,
                    leftActions, rightActions + 1)

\* the dark of the child read with ||: child.props.dark || dark
toolbarChildPropsOr(child, i, dark, centerIos) ==
  LET darkProp == Or(Get(child.props, "dark"), dark)
  IN IF child.type = ToolbarContent
       THEN [ dark |-> darkProp,
              style |-> [ marginHorizontal |-> IF i = 0 THEN 0 ELSE 8,
                          center |-> centerIos,
                          own |-> Get(child.props, "style") ] ]
       ELSE [ dark |-> darkProp ]

\* the props Toolbar.render clones onto the child at index i (0-based)
toolbarChildProps(child, i, dark, centerIos) ==
  LET darkProp == IF Get(child.props, "dark") = "undefined"
                    THEN dark ELSE Get(child.props, "dark")
  IN IF child.type = ToolbarContent
       THEN [ dark |-> darkProp,
              style |-> [ marginHorizontal |-> IF i = 0 THEN 0 ELSE 8,
                          center |-> centerIos,
                          own |-> Get(child.props, "style") ] ]
       ELSE [ dark |-> darkProp ]

\* centering with up to two actions on a side
centerIosUpToTwo(os, leftActions, rightActions) ==
  os = "ios" /\ (leftActions < 3 /\ rightActions < 3)

\* const centerIos
centerIosOf(os, leftActions, rightActions) ==
  os = "ios" /\ (leftActions < 2 /\ rightActions < 2)

\* Toolbar.render: the children of the Paper it returns
toolbarRender(children, dark, os) ==
  LET childrenArray == toArray(children)
      counted == IF os = "ios" THEN countActions(childrenArray, 1, FALSE, 0, 0)
                               ELSE <<0, 0>>
      leftActions == counted[1]
      rightActions == counted[2]
      centerIos == centerIosOf(os, leftActions, rightActions)
      unshifted == IF centerIos /\ leftActions = 0
                     THEN <<emptyIcon("left-empty-icon")>> \o childrenArray
                     ELSE childrenArray
      pushed == IF centerIos /\ rightActions = 0
                  THEN unshifted \o <<emptyIcon("right-empty-icon")>>
                  ELSE unshifted
      filtered == SelectSeq(pushed, LAMBDA c : c.type # "null")
  IN [i \in 1..Len(filtered) |->
        cloneElement(filtered[i],
                     toolbarChildProps(filtered[i], i - 1, dark, centerIos))]

ToolbarState(os, dark, children) ==
  [ platform |-> os,
    dark |-> dark,
    children |-> children,
    rendered |-> toolbarRender(children, dark, os) ]

ToolbarIdle == ToolbarState("ios", "undefined", <<>>)

\* the parent renders the Toolbar with one more child
ToolbarAddChild ==
  /\ Len(toolbar.children) < MaxChildren
  /\ \E type \in ToolbarChildTypes :
       \E dark \in IF type = "null" THEN {"undefined"} ELSE {"undefined", "false", "true"} :
         toolbar' = ToolbarState(toolbar.platform, toolbar.dark,
                      Append(toolbar.children,
                             ToolbarChild(type, dark, ChildNames[Len(toolbar.children) + 1])))
  /\ UNCHANGED notToolbar

\* the parent renders the Toolbar without its last child
ToolbarRemoveChild ==
  /\ Len(toolbar.children) > 0
  /\ toolbar' = ToolbarState(toolbar.platform, toolbar.dark,
                  SubSeq(toolbar.children, 1, Len(toolbar.children) - 1))
  /\ UNCHANGED notToolbar

\* the parent renders the Toolbar with another dark prop
ToolbarSetDark ==
  /\ \E dark \in {"undefined", "false", "true"} \ {toolbar.dark} :
       toolbar' = ToolbarState(toolbar.platform, dark, toolbar.children)
  /\ UNCHANGED notToolbar

(***************************************************************************)
(* Card                                                                    *)
(***************************************************************************)
\* the kinds of child a Card is given: its three parts, a component whose
\* type has no displayName, and an empty child
CardChildTypes == {"CardContent", "CardCover", "CardActions", "Anonymous", "null"}

\* child.type.displayName
displayName(type) == IF type = "Anonymous" THEN "undefined" ELSE type

CardChild(type, name) ==
  [ type |-> type,
    key |-> [prefix |-> "", name |-> name],
    props |-> [style |-> "undefined"] ]

\* Children.count(children): every child counts, an empty one too
childrenCount(children) == Len(children)

\* Children.map calls the function on every child, an empty one too, as null
typeErrorOnNull(children) ==
  \E i \in 1..Len(children) : children[i].type = "null"

\* Children.map(children, child => child.type.displayName): the results
\* that are undefined or null are left out of the array
siblingsOf(children) ==
  SelectSeq([i \in 1..Len(children) |-> displayName(children[i].type)],
            LAMBDA n : n \notin {"undefined", "null"})

\* Card.render: the children of the inner View, or the TypeError it throws
cardRender(children) ==
  LET total == childrenCount(children)
      siblings == siblingsOf(children)
  IN IF typeErrorOnNull(children)
       THEN [error |-> TRUE, children |-> <<>>]
       ELSE [ error |-> FALSE,
              children |->
                [i \in 1..Len(children) |->
                   cloneElement([children[i] EXCEPT !.key.prefix = ".$"],
                                [ index |-> i - 1,
                                  total |-> total,
                                  siblings |-> siblings ])] ]

CardState(children) ==
  [ children |-> children,
    rendered |-> cardRender(children) ]

CardIdle == CardState(<<>>)

\* the parent renders the Card with one more child
CardAddChild ==
  /\ Len(card.children) < MaxChildren
  /\ \E type \in CardChildTypes :
       card' = CardState(Append(card.children,
                                CardChild(type, ChildNames[Len(card.children) + 1])))
  /\ UNCHANGED notCard

\* the parent renders the Card without its last child
CardRemoveChild ==
  /\ Len(card.children) > 0
  /\ card' = CardState(SubSeq(card.children, 1, Len(card.children) - 1))
  /\ UNCHANGED notCard

(***************************************************************************)
(* Specifications                                                          *)
(***************************************************************************)
\* the placement of a Menu shown on mount, over the measured rectangles
LayoutInit ==
  /\ menu \in {MenuState(TRUE, os) : os \in Platforms}
  /\ menuPos = positionStyle(menu)
  /\ modal = ModalIdle
  /\ snackbar = SnackbarIdle
  /\ control = ControlIdle
  /\ search = SearchIdle
  /\ toolbar = ToolbarIdle
  /\ card = CardIdle

LayoutNext ==
  \/ MenuRefAttached
  \/ MenuMeasuredLayout

LayoutSpec == LayoutInit /\ [][LayoutNext]_vars

\* the life cycle of a Menu
MenuInit ==
  /\ menu \in {MenuState(v, "ios") : v \in BOOLEAN}
  /\ menuPos = positionStyle(menu)
  /\ modal = ModalIdle
  /\ snackbar = SnackbarIdle
  /\ control = ControlIdle
  /\ search = SearchIdle
  /\ toolbar = ToolbarIdle
  /\ card = CardIdle

MenuNext ==
  \/ MenuSetVisible
  \/ MenuRefAttached
  \/ MenuMeasured
  \/ MenuRetryTimer
  \/ MenuAnimFrame
  \/ MenuAnimEnd
  \/ MenuUnmount

MenuSpec == MenuInit /\ [][MenuNext]_vars

\* the life cycle of a Modal
ModalInit ==
  /\ menu = MenuIdle
  /\ menuPos = positionStyle(menu)
  /\ modal \in {ModalState(v, d) : v \in BOOLEAN, d \in BOOLEAN}
  /\ snackbar = SnackbarIdle
  /\ control = ControlIdle
  /\ search = SearchIdle
  /\ toolbar = ToolbarIdle
  /\ card = CardIdle

ModalNext ==
  \/ ModalSetVisible
  \/ ModalSetDismissable
  \/ ModalBackdropPress
  \/ ModalBackPress
  \/ ModalAnimFrame
  \/ ModalAnimEnd
  \/ ModalUnmount

ModalSpec == ModalInit /\ [][ModalNext]_vars

\* every started animation reaches its end
ModalFairSpec == ModalSpec /\ WF_vars(ModalAnimEnd)

\* the life cycle of a Snackbar
SnackbarInit ==
  /\ menu = MenuIdle
  /\ menuPos = positionStyle(menu)
  /\ modal = ModalIdle
  /\ snackbar \in {SnackbarState(v, d, a) : v \in BOOLEAN, d \in Durations, a \in BOOLEAN}
  /\ control = ControlIdle
  /\ search = SearchIdle
  /\ toolbar = ToolbarIdle
  /\ card = CardIdle

SnackbarNext ==
  \/ SnackbarDidMount
  \/ SnackbarSetVisible
  \/ SnackbarLayout
  \/ SnackbarAnimFrame
  \/ SnackbarAnimEnd
  \/ SnackbarTimer
  \/ SnackbarActionPress
  \/ SnackbarUnmount

SnackbarSpec == SnackbarInit /\ [][SnackbarNext]_vars

\* the controls, over their props and the platforms
ControlInit ==
  /\ menu = MenuIdle
  /\ menuPos = positionStyle(menu)
  /\ modal = ModalIdle
  /\ snackbar = SnackbarIdle
  /\ control \in {ControlState(k, ControlFirstProps(k), pf) :
                    k \in ControlKinds, pf \in ControlPlatforms}
  /\ search = SearchIdle
  /\ toolbar = ToolbarIdle
  /\ card = CardIdle

ControlNext ==
  \/ ControlSetProps
  \/ ControlTouch

ControlSpec == ControlInit /\ [][ControlNext]_vars

\* the SearchBar, over its props
SearchInit ==
  /\ menu = MenuIdle
  /\ menuPos = positionStyle(menu)
  /\ modal = ModalIdle
  /\ snackbar = SnackbarIdle
  /\ control = ControlIdle
  /\ search = SearchIdle
  /\ toolbar = ToolbarIdle
  /\ card = CardIdle

SearchNext ==
  \/ SearchSetProps
  \/ SearchType
  \/ SearchClearPress
  \/ SearchIconPress

SearchSpec == SearchInit /\ [][SearchNext]_vars

\* the Toolbar, over its children, its dark prop and the platform
ToolbarInit ==
  /\ menu = MenuIdle
  /\ menuPos = positionStyle(menu)
  /\ modal = ModalIdle
  /\ snackbar = SnackbarIdle
  /\ control = ControlIdle
  /\ search = SearchIdle
  /\ toolbar \in {ToolbarState(os, "undefined", <<>>) : os \in ToolbarPlatforms}
  /\ card = CardIdle

ToolbarNext ==
  \/ ToolbarAddChild
  \/ ToolbarRemoveChild
  \/ ToolbarSetDark

ToolbarSpec == ToolbarInit /\ [][ToolbarNext]_vars

\* the Card, over its children
CardInit ==
  /\ menu = MenuIdle
  /\ menuPos = positionStyle(menu)
  /\ modal = ModalIdle
  /\ snackbar = SnackbarIdle
  /\ control = ControlIdle
  /\ search = SearchIdle
  /\ toolbar = ToolbarIdle
  /\ card = CardIdle

CardNext ==
  \/ CardAddChild
  \/ CardRemoveChild

CardSpec == CardInit /\ [][CardNext]_vars

(***************************************************************************)
(* Properties of the Menu placement (LayoutSpec)                           *)
(***************************************************************************)
Max(a, b) == IF a >= b THEN a ELSE b

\* the stored layout has positive sizes and the anchor lies inside the window
AnchorInsideWindow ==
  /\ menu.windowLayout.width > 0 /\ menu.windowLayout.height > 0
  /\ menu.menuLayout.width > 0 /\ menu.menuLayout.height > 0
  /\ menu.anchorLayout.width > 0 /\ menu.anchorLayout.height > 0
  /\ menu.left >= 0 /\ menu.left + menu.anchorLayout.width <= menu.windowLayout.width
  /\ menu.top >= 0 /\ menu.top + menu.anchorLayout.height <= menu.windowLayout.height

\* C1: with positive sizes, the anchor inside the window and
\* menu.width + 2 * SCREEN_INDENT <= window.width, the rendered left keeps
\* the menu inside the window: 0 <= left and left + menu.width <= window.width
C1_NoHorizontalOverflow ==
  (AnchorInsideWindow
   /\ menu.menuLayout.width + 2 * SCREEN_INDENT <= menu.windowLayout.width)
  => /\ 0 <= menuPos.left
     /\ menuPos.left + menu.menuLayout.width <= menu.windowLayout.width

\* C2: with positive sizes, the anchor inside the window, no status bar
\* offset and menu.height + 2 * SCREEN_INDENT <= window.height, the menu
\* opens downwards exactly when top <= window.height - menu.height -
\* SCREEN_INDENT, and the rendered top keeps it inside the window
C2_NoVerticalOverflow ==
  (AnchorInsideWindow
   /\ additionalVerticalValue(menu) = 0
   /\ menu.menuLayout.height + 2 * SCREEN_INDENT <= menu.windowLayout.height)
  => /\ (menuPos.originY = "top")
          <=> (menu.top <= menu.windowLayout.height - menu.menuLayout.height
                           - SCREEN_INDENT)
     /\ 0 <= menuPos.top
     /\ menuPos.top + menu.menuLayout.height <= menu.windowLayout.height

\* the stored anchor x is not negative and the menu fits to its right
LeftAligned ==
  /\ 0 <= menu.left
  /\ menu.left <= menu.windowLayout.width - menu.menuLayout.width - SCREEN_INDENT

\* C3 as stated: in the left-aligned case the rendered left is
\* max(x, SCREEN_INDENT) and the menu lies within
\* [SCREEN_INDENT, window.width - SCREEN_INDENT]; a negative x is unchanged
C3_Original ==
  /\ LeftAligned
       => /\ menuPos.left = Max(menu.left, SCREEN_INDENT)
          /\ SCREEN_INDENT <= menuPos.left
          /\ menuPos.left + menu.menuLayout.width
               <= menu.windowLayout.width - SCREEN_INDENT
  /\ (menu.left < 0 /\ fitsHorizontally(menu)) => menuPos.left = menu.left

\* C3 (amended): in the left-aligned case the rendered left is
\* max(x, SCREEN_INDENT), so the left edge keeps the padding and the menu
\* ends inside the window; the right edge keeps the padding when x >=
\* SCREEN_INDENT or menu.width + 2 * SCREEN_INDENT <= window.width; a
\* negative x that fits is left unchanged
C3_LeftPadding ==
  /\ LeftAligned
       => /\ menuPos.left = Max(menu.left, SCREEN_INDENT)
          /\ SCREEN_INDENT <= menuPos.left
          /\ menuPos.left + menu.menuLayout.width <= menu.windowLayout.width
          /\ (\/ menu.left >= SCREEN_INDENT
              \/ menu.menuLayout.width + 2 * SCREEN_INDENT <= menu.windowLayout.width)
               => menuPos.left + menu.menuLayout.width
                    <= menu.windowLayout.width - SCREEN_INDENT
  /\ (menu.left < 0 /\ fitsHorizontally(menu)) => menuPos.left = menu.left

\* a measured menu whose anchor is closer to the left edge than the padding
\* and that was moved to the padding
C3_Witness ==
  /\ AnchorInsideWindow
  /\ LeftAligned
  /\ menu.left < SCREEN_INDENT
  /\ menuPos.left = SCREEN_INDENT

(***************************************************************************)
(* Properties of the Menu life cycle (MenuSpec)                            *)
(***************************************************************************)
\* C4: while the Menu is mounted with visible false (componentDidUpdate
\* has run _hide), neither its hardwareBackPress nor its Dimensions
\* listener is registered
C4_NoListenerWhileHidden ==
  (menu.mounted /\ ~menu.visible) => (~menu.back /\ ~menu.dims)

\* C5: after componentWillUnmount neither listener of the Menu is registered
C5_NoListenerAfterUnmount ==
  ~menu.mounted => (~menu.back /\ ~menu.dims)

\* C11: while the visible prop is false no show animation of the Menu runs,
\* and once its animations are over the opacity value is 0
C11_AnimationFollowsVisible ==
  (menu.mounted /\ ~menu.visible)
    => /\ menu.anim # "show"
       /\ menu.anim = "none" => menu.opacity = 0

\* C23: _show never schedules another run of itself: no timer that runs
\* _show is ever pending, whatever was measured and whether the Menu is
\* visible, hidden or unmounted
C23_ShowNeverRetries == menu.timers = 0

(***************************************************************************)
(* Properties of the Snackbar (SnackbarSpec)                               *)
(***************************************************************************)
TimerDismissed == snackbar.log = <<"onDismiss">>

\* C12: while the Snackbar is mounted and no animation runs, opacity is 1
\* and translateY 0 when visible is true, and opacity is 0 when it is false
C12_PositionFollowsVisible ==
  (snackbar.life = "mounted" /\ snackbar.anim = "none")
    => /\ snackbar.visible => (snackbar.opacity = 100 /\ snackbar.translateY = 0)
       /\ ~snackbar.visible => snackbar.opacity = 0

\* C13: while visible is true the hide timer calls onDismiss only after
\* the show animation of the current showing has run to its end
C13_DismissAfterShown ==
  (snackbar.life = "mounted" /\ snackbar.visible /\ TimerDismissed)
    => snackbar.shown

\* C14: a Snackbar with duration DURATION_INDEFINITE never has a pending
\* hide timer and its onDismiss is never called by a timer
C14_IndefiniteNeverTimed ==
  snackbar.duration = DURATION_INDEFINITE
    => (~snackbar.timer /\ snackbar.stale = 0 /\ ~TimerDismissed)

\* an indefinite Snackbar whose show animation has run to its end
C14_Witness ==
  /\ snackbar.duration = DURATION_INDEFINITE
  /\ snackbar.life = "mounted"
  /\ snackbar.visible
  /\ snackbar.shown
  /\ snackbar.anim = "none"
  /\ snackbar.opacity = 100

\* C15: while the visible prop is false (and _hide has run) the hide timer
\* does not call onDismiss
C15_HideCancelsTimer ==
  (snackbar.life = "mounted" /\ TimerDismissed) => snackbar.visible

\* C16: after componentWillUnmount no hide timer is pending and none calls
\* onDismiss
C16_NoTimerAfterUnmount ==
  snackbar.life = "unmounted"
    => (~snackbar.timer /\ snackbar.stale = 0 /\ ~TimerDismissed)

\* C17: a press of the action button calls action.onPress and then
\* onDismiss, once each, and changes neither opacity, translateY, the
\* running animation nor the pending timers
C17_ActionPress ==
  [][SnackbarActionPress
       => /\ snackbar'.log = <<"action.onPress", "onDismiss">>
          /\ snackbar'.opacity = snackbar.opacity
          /\ snackbar'.translateY = snackbar.translateY
          /\ snackbar'.anim = snackbar.anim
          /\ snackbar'.timer = snackbar.timer
          /\ snackbar'.stale = snackbar.stale
          /\ snackbar'.visible = snackbar.visible]_vars

\* the action button was pressed while the hide timer was pending
C17_Witness ==
  /\ snackbar.log = <<"action.onPress", "onDismiss">>
  /\ snackbar.visible
  /\ snackbar.timer
  /\ snackbar.opacity = 100

(***************************************************************************)
(* Properties of the controls                                              *)
(***************************************************************************)
\* C18: the touchable that TouchableRipple renders is disabled exactly when
\* the disabled prop is truthy or onPress is missing, on Android 21 and up
\* (TouchableNativeFeedback) and on the other platforms (TouchableHighlight)
\* alike, whatever the other props spread onto it
C18_EffectiveDisabled ==
  control.kind = "TouchableRipple" =>
    /\ control.element.type =
         IF control.platform.os = "android"
            /\ control.platform.version >= ANDROID_VERSION_LOLLIPOP
           THEN "TouchableNativeFeedback" ELSE "TouchableHighlight"
    /\ Truthy(Get(control.element.props, "disabled"))
         <=> (Truthy(Get(control.props, "disabled"))
              \/ ~Truthy(Get(control.props, "onPress")))
    /\ (control.touched /\ Truthy(Get(control.element.props, "disabled")))
         => control.log = <<>>

\* on Android 21 the disabled prop is false, onPress is null and another prop
\* is spread: the TouchableNativeFeedback is disabled, and was touched
C18_Witness ==
  /\ control.kind = "TouchableRipple"
  /\ control.platform.os = "android"
  /\ control.platform.version >= ANDROID_VERSION_LOLLIPOP
  /\ control.props.disabled = "false"
  /\ control.props.onPress = "null"
  /\ control.props.accessibilityLabel = "label"
  /\ control.element.props.disabled = "true"
  /\ control.touched

\* C19: a disabled Checkbox or RadioButton hands onPress undefined to its
\* TouchableRipple and a disabled Switch hands onValueChange undefined to the
\* native switch; when not disabled the caller's callback is handed on as is
C19_DisabledDropsCallback ==
  control.kind \in {"Checkbox", "RadioButton", "Switch"} =>
    /\ Get(control.inner, callbackName(control.kind)) =
         IF Truthy(Get(control.props, "disabled"))
           THEN "undefined"
           ELSE Get(control.props, callbackName(control.kind))
    /\ (control.touched /\ Truthy(Get(control.props, "disabled")))
         => control.log = <<>>

\* a disabled Checkbox whose caller gave onPress was touched
C19_Witness ==
  /\ control.kind = "Checkbox"
  /\ control.props.disabled = "true"
  /\ control.props.onPress = "callerOnPress"
  /\ control.inner.onPress = "undefined"
  /\ control.touched

(***************************************************************************)
(* Properties of the SearchBar                                             *)
(***************************************************************************)
\* C20: the clear button is rendered exactly when value is a non-empty
\* string, and a press of it calls onChangeText('') once and nothing else
C20_ClearButton ==
  /\ search.rendered.clear <=> search.props.value # ""
  /\ search.last = "clear" => search.log = <<[fn |-> "onChangeText", arg |-> ""]>>

\* the clear button pressed with a text in the input and onIconPress given
C20_Witness ==
  /\ search.last = "clear"
  /\ search.props.value = "ab"
  /\ search.props.onIconPress = "callerOnIconPress"

(***************************************************************************)
(* Properties of the Toolbar (ToolbarSpec)                                 *)
(***************************************************************************)
\* the children given to the Toolbar that are elements
toolbarGiven == SelectSeq(toolbar.children, LAMBDA c : c.type # "null")

\* the type and the author's key name of each element, in order
Ids(elements) ==
  [i \in 1..Len(elements) |-> <<elements[i].type, elements[i].key.name>>]

\* the dark prop the author gave the element a rendered child was cloned from
ownDark(r) ==
  IF \E i \in 1..Len(toolbarGiven) : toolbarGiven[i].key.name = r.key.name
    THEN Get(toolbarGiven[CHOOSE i \in 1..Len(toolbarGiven) :
                            toolbarGiven[i].key.name = r.key.name].props, "dark")
    ELSE "undefined"

\* C21: every child of the Toolbar is rendered, and every rendered child
\* receives its own dark prop when that is defined (true or false) and the
\* dark prop of the Toolbar otherwise
C21_ChildDarkOverrides ==
  /\ \A i \in 1..Len(toolbarGiven) :
       \E j \in 1..Len(toolbar.rendered) :
         toolbar.rendered[j].key.name = toolbarGiven[i].key.name
  /\ \A j \in 1..Len(toolbar.rendered) :
       Get(toolbar.rendered[j].props, "dark") =
         IF ownDark(toolbar.rendered[j]) # "undefined"
           THEN ownDark(toolbar.rendered[j])
           ELSE toolbar.dark

\* a dark Toolbar with a child whose dark is false, rendered with dark false
C21_Witness ==
  /\ toolbar.dark = "true"
  /\ \E j \in 1..Len(toolbar.rendered) :
       /\ ownDark(toolbar.rendered[j]) = "false"
       /\ toolbar.rendered[j].props.dark = "false"

\* C24: on iOS with exactly one ToolbarContent child, with leftActions the
\* number of children before it and rightActions the number after it, the
\* content is centered iff both are below 2, and then an empty View stands
\* on each side that has no action, so that one element is rendered on each
\* side of the content; otherwise, and on the other platforms, the rendered
\* children are the given children in the given order
C24_IosCentering ==
  LET contents == {i \in 1..Len(toolbarGiven) : toolbarGiven[i].type = ToolbarContent}
      rendered == toolbar.rendered
  IN IF toolbar.platform = "ios"
       THEN Cardinality(contents) = 1 =>
         LET p == CHOOSE i \in contents : TRUE
             leftActions == p - 1
             rightActions == Len(toolbarGiven) - p
             centered == leftActions < 2 /\ rightActions < 2
         IN /\ \A j \in 1..Len(rendered) :
                 rendered[j].type = ToolbarContent =>
                   rendered[j].props.style.center = centered
            /\ IF centered
                 THEN /\ Ids(rendered) =
                           (IF leftActions = 0
                              THEN << <<"View", "left-empty-icon">> >> ELSE <<>>)
                           \o Ids(toolbarGiven)
                           \o (IF rightActions = 0
                                 THEN << <<"View", "right-empty-icon">> >> ELSE <<>>)
                      /\ Len(rendered) = 3
                      /\ rendered[2].type = ToolbarContent
                 ELSE Ids(rendered) = Ids(toolbarGiven)
       ELSE /\ Ids(rendered) = Ids(toolbarGiven)
            /\ \A j \in 1..Len(rendered) :
                 rendered[j].type = ToolbarContent =>
                   ~rendered[j].props.style.center

\* on iOS a ToolbarContent followed by one action: an empty View is rendered
\* before the centered content
C24_Witness ==
  /\ toolbar.platform = "ios"
  /\ Len(toolbarGiven) = 2
  /\ toolbarGiven[1].type = ToolbarContent
  /\ toolbarGiven[2].type = "ToolbarAction"
  /\ Len(toolbar.rendered) = 3
  /\ toolbar.rendered[1].type = "View"
  /\ toolbar.rendered[2].props.style.center

(***************************************************************************)
(* Properties of the Card (CardSpec)                                       *)
(***************************************************************************)
\* C22: a Card with n children renders n children, the i-th (0-based) with
\* index = i, total = n and siblings = the display names of the types of
\* all n children in order, so that siblings has length total
C22_ChildAnnotation ==
  LET n == Len(card.children)
      rendered == card.rendered.children
  IN /\ ~card.rendered.error
     /\ Len(rendered) = n
     /\ \A i \in 1..Len(rendered) :
          /\ rendered[i].props.index = i - 1
          /\ rendered[i].props.total = n
          /\ rendered[i].props.siblings =
               [j \in 1..n |-> displayName(card.children[j].type)]
          /\ Len(rendered[i].props.siblings) = rendered[i].props.total

(***************************************************************************)
(* Properties of the Modal (ModalSpec, ModalFairSpec)                      *)
(***************************************************************************)
HideRunning == \E i \in 1..Len(modal.anims) : modal.anims[i].to = 0

\* C6: while the Modal is mounted with visible true and no hide animation
\* is running, its hardwareBackPress handler is registered
C6_ListensWhileVisible ==
  (modal.mounted /\ modal.visible /\ ~HideRunning) => modal.back

\* C7: once the Modal is unmounted, or while visible is false, its
\* hardwareBackPress handler is not registered
C7_NoListenerWhenHiddenOrUnmounted ==
  (~modal.mounted \/ ~modal.visible) => ~modal.back

\* C8: onRequestClose is called only to answer a backdrop press or a back
\* press of the user that no earlier call has answered
C8_CloseOnlyOnDismissal == ~modal.spurious

\* C9: with dismissable false a back press leaves opacity, rendered, the
\* listener and the running animations unchanged and calls nothing; a
\* backdrop press needs dismissable; _handleBack always returns true
C9_NotDismissable ==
  [][ /\ (ModalBackPress /\ ~modal.dismissable)
          => /\ modal'.opacity = modal.opacity
             /\ modal'.rendered = modal.rendered
             /\ modal'.back = modal.back
             /\ modal'.anims = modal.anims
             /\ modal'.unanswered = modal.unanswered
             /\ modal'.called = modal.called
             /\ modal'.spurious = modal.spurious
      /\ ModalBackPress => modal'.handled = "true"
      /\ ModalBackdropPress => modal.dismissable ]_vars

\* the back button was pressed on a shown Modal that is not dismissable
C9_Witness ==
  /\ modal.handled = "true"
  /\ ~modal.dismissable
  /\ modal.back
  /\ modal.visible
  /\ modal.opacity = 100
  /\ modal.anims = <<>>
  /\ modal.unanswered = 0
  /\ ~modal.called

\* a step of the parent or the user: the visible prop changes or the user
\* dismisses
ModalDisturbed ==
  \/ modal'.visible # modal.visible
  \/ modal'.unanswered > modal.unanswered

\* a step that starts an animation while another one is tracked, which is
\* stopped before it completes
AnimStopped ==
  /\ modal.tracked # 0
  /\ \/ ModalSetVisible
     \/ ModalBackdropPress
     \/ ModalBackPress /\ modal.dismissable

ModalSettled ==
  \/ ~modal.mounted
  \/ modal.visible /\ modal.opacity = 100 /\ modal.rendered
  \/ ~modal.visible /\ modal.opacity = 0 /\ ~modal.rendered

\* C10: if from some point on the visible prop no longer changes and the
\* animations complete, then opacity is eventually 1 and rendered true when
\* visible, opacity 0 and rendered false when not: again and again while
\* the user keeps dismissing between animations, and for good once the
\* user stops (an unanswered dismissal returns to opacity 1)
C10_Converges ==
  /\ <>[][modal'.visible = modal.visible /\ ~AnimStopped]_vars => []<>ModalSettled
  /\ <>[][~ModalDisturbed]_vars => <>[]ModalSettled

\* the user dismissed, onRequestClose was called, the parent left visible
\* true and the Modal is back at opacity 1
C10_Witness ==
  /\ modal.mounted
  /\ modal.visible
  /\ modal.called
  /\ ~modal.spurious
  /\ modal.opacity = 100
  /\ modal.rendered
  /\ modal.anims = <<>>

====
